---- MODULE Spec2Model ----
(***************************************************************************)
(* A model of the two-stage AWS cost optimizer.                            *)
(*   stage 1: lambda/cost_analyzer/handler.py  (collect, analyze, store)   *)
(*   stage 2: lambda/ai_recommender/handler.py (fetch latest, generate a   *)
(*            report through lambda/ai_recommender/ai_client.py, archive,  *)
(*            notify, update the record)                                   *)
(*                                                                         *)
(* Units.  CPU utilisation is kept in hundredths of a percent (the         *)
(* collector rounds to two decimals), money in cents.  Python computes     *)
(* size_gb * 0.10 in binary floating point; the model keeps the exact      *)
(* decimal value, so a one-ulp rounding error of the float product is not  *)
(* represented.                                                            *)
(***************************************************************************)
EXTENDS Integers, Sequences, FiniteSets, TLC

VARIABLES
    pc,                \* which invocation's locals are live: "idle" between invocations
    clock,             \* wall clock, in ticks (datetime.now())
    aws,               \* how the account's EC2, CloudWatch and EBS APIs answer
    store,             \* the DynamoDB table: id -> item
    backend,           \* how the text-generation backend answers the request in flight
    metrics_data,      \* stage 1: what collect_aws_metrics returned
    analysis_results,  \* stage 1: what analyze_metrics returned
    s1_response,       \* stage 1: what lambda_handler returned
    latest_analysis,   \* stage 2: what get_latest_analysis returned
    client_call,       \* stage 2: the AIClient.generate_report call, its prompt and its outcome
    ai_report,         \* stage 2: what generate_ai_report returned
    effects,           \* stage 2: the external writes attempted, in order
    s2_response        \* stage 2: what lambda_handler returned

vars == <<pc, clock, aws, store, backend, metrics_data, analysis_results, s1_response,
          latest_analysis, client_call, ai_report, effects, s2_response>>

stage1_vars == <<metrics_data, analysis_results, s1_response>>
stage2_vars == <<latest_analysis, client_call, ai_report, effects, s2_response>>

----------------------------------------------------------------------------
(* Program constants *)

\* `instance['cpu_average'] < 15`, in hundredths of a percent
LowCpuThreshold == 1500

\* 'estimated_savings': 50, in cents
RightsizeSavings == 5000

\* volume['size_gb'] * 0.10, in cents per GB
CentsPerGB == 10

\* table.scan(Limit=10, ...)
ScanLimit == 10

(* Bounds of the model *)

MaxInstances == 2
MaxVolumes == 2

\* clock ticks per second: timestamps keep the tick, ids only the second
TicksPerSecond == 2

\* the last second the clock reaches
MaxClock == 1

\* the last second of a long history of scheduled runs
MaxHistory == 10

\* the longest compute and storage sequence of a snapshot handed to the client
MaxSnapshotSamples == 1

\* the value of a variable no code has assigned yet
None == [type |-> "NoneType"]

----------------------------------------------------------------------------
(* Helpers *)

Range(s) == {s[i] : i \in DOMAIN s}

RECURSIVE SeqsUpTo(_, _)
SeqsUpTo(S, n) ==
    IF n = 0 THEN {<<>>}
    ELSE LET shorter == SeqsUpTo(S, n - 1)
         IN  shorter \cup {Append(s, x) : s \in {t \in shorter : Len(t) = n - 1}, x \in S}

\* Python's sum(): left to right, starting at 0
RECURSIVE sum(_)
sum(s) == IF s = <<>> THEN 0 ELSE sum(SubSeq(s, 1, Len(s) - 1)) + s[Len(s)]

----------------------------------------------------------------------------
(* Stage 1, analyze_metrics *)

ec2_recommendation(instance) ==
    [type              |-> "ec2_rightsize",
     severity          |-> "medium",
     resource_id       |-> instance.instance_id,
     current_type      |-> instance.instance_type,
     cpu_utilization   |-> instance.cpu_average,
     message           |-> <<"low CPU utilization", instance.instance_id, instance.cpu_average>>,
     estimated_savings |-> RightsizeSavings]

ebs_recommendation(volume) ==
    [type              |-> "ebs_cleanup",
     severity          |-> "low",
     resource_id       |-> volume.volume_id,
     size_gb           |-> volume.size_gb,
     message           |-> <<"unattached", volume.volume_id, volume.size_gb>>,
     estimated_savings |-> volume.size_gb * CentsPerGB]

\* the threshold test with the boundary on the wrong side
low_cpu_inclusive(instance) == instance.cpu_average <= LowCpuThreshold

low_cpu(instance) == instance.cpu_average < LowCpuThreshold

\* idleness read from the volume's state instead of its attachments
unattached_by_state(volume) == volume.state = "available"

unattached(volume) == ~volume.is_attached

\* the total rounded down to whole dollars before it is stored in the snapshot
total_savings_truncated(recommendations) ==
    (sum([i \in DOMAIN recommendations |-> recommendations[i].estimated_savings]) \div 100) * 100

total_savings(recommendations) ==
    sum([i \in DOMAIN recommendations |-> recommendations[i].estimated_savings])

analyze_metrics(metrics, now) ==
    LET low_cpu_instances  == SelectSeq(metrics.ec2_instances, low_cpu)
        unattached_volumes == SelectSeq(metrics.ebs_volumes, unattached)
        recommendations ==
            [i \in DOMAIN low_cpu_instances |-> ec2_recommendation(low_cpu_instances[i])]
            \o [i \in DOMAIN unattached_volumes |-> ebs_recommendation(unattached_volumes[i])]
    IN  [timestamp               |-> now,
         metrics                 |-> metrics,
         recommendations         |-> recommendations,
         total_potential_savings |-> total_savings(recommendations)]

----------------------------------------------------------------------------
(* Stage 1, the collector *)

\* the account: what describe_instances, get_metric_statistics and
\* describe_volumes answer when they answer
Account ==
    [Instances |->
        << [InstanceId   |-> "i-1",
            InstanceType |-> "t3.medium",
            Datapoints   |-> << [Average |-> 425, Maximum |-> 900],
                                [Average |-> 550, Maximum |-> 2000],
                                [Average |-> 526, Maximum |-> 1250] >>] >>,
     Volumes |->
        << [VolumeId |-> "vol-1", Size |-> 100, State |-> "available", Attachments |-> << >>],
           [VolumeId |-> "vol-2", Size |-> 30,  State |-> "in-use",    Attachments |-> <<"i-1">>] >>]

\* how each API of the account answers a call
AwsConditions ==
    [ec2 : {"ok", "error"}, cloudwatch : {"datapoints", "no_datapoints", "error"},
     ebs : {"ok", "error"}]

RECURSIVE seq_max(_)
seq_max(s) ==
    IF Len(s) = 1 THEN s[1]
    ELSE LET m == seq_max(Tail(s)) IN IF s[1] >= m THEN s[1] ELSE m

\* round(n / d, 2) on values kept in hundredths: to the nearest, ties to even
round2(n, d) ==
    LET q == n \div d
        r == n % d
    IN  IF 2 * r < d THEN q
        ELSE IF 2 * r > d THEN q + 1
        ELSE IF q % 2 = 0 THEN q ELSE q + 1

get_cloudwatch_metric(condition, instance) ==
    IF condition = "error" THEN [average |-> 0, max |-> 0]
    ELSE LET datapoints == IF condition = "no_datapoints" THEN << >> ELSE instance.Datapoints
         IN  IF datapoints = << >> THEN [average |-> 0, max |-> 0]
             ELSE [average |-> round2(sum([i \in DOMAIN datapoints |-> datapoints[i].Average]),
                                      Len(datapoints)),
                   max     |-> seq_max([i \in DOMAIN datapoints |-> datapoints[i].Maximum])]

\* a collector that leaves out the instances it has no CPU data for
get_ec2_metrics_skipping(condition) ==
    IF condition.ec2 = "error" \/ condition.cloudwatch # "datapoints" THEN << >>
    ELSE [k \in DOMAIN Account.Instances |->
            LET instance  == Account.Instances[k]
                cpu_stats == get_cloudwatch_metric(condition.cloudwatch, instance)
            IN  [instance_id   |-> instance.InstanceId,
                 instance_type |-> instance.InstanceType,
                 cpu_average   |-> cpu_stats.average,
                 cpu_max       |-> cpu_stats.max]]

get_ec2_metrics(condition) ==
    IF condition.ec2 = "error" THEN << >>
    ELSE [k \in DOMAIN Account.Instances |->
            LET instance  == Account.Instances[k]
                cpu_stats == get_cloudwatch_metric(condition.cloudwatch, instance)
            IN  [instance_id   |-> instance.InstanceId,
                 instance_type |-> instance.InstanceType,
                 cpu_average   |-> cpu_stats.average,
                 cpu_max       |-> cpu_stats.max]]

get_ebs_metrics(condition) ==
    IF condition.ebs = "error" THEN << >>
    ELSE [k \in DOMAIN Account.Volumes |->
            LET volume == Account.Volumes[k]
            IN  [volume_id   |-> volume.VolumeId,
                 size_gb     |-> volume.Size,
                 state       |-> volume.State,
                 is_attached |-> Len(volume.Attachments) > 0]]

\* collection with one try around both classes: either call failing empties both
collect_aws_metrics_coupled(condition, now) ==
    LET failed == condition.ec2 = "error" \/ condition.ebs = "error"
    IN  [ec2_instances |-> IF failed THEN << >> ELSE get_ec2_metrics(condition),
         ebs_volumes   |-> IF failed THEN << >> ELSE get_ebs_metrics(condition),
         timestamp     |-> now]

collect_aws_metrics(condition, now) ==
    [ec2_instances |-> get_ec2_metrics(condition),
     ebs_volumes   |-> get_ebs_metrics(condition),
     timestamp     |-> now]

----------------------------------------------------------------------------
(* Stage 1, store_results and the handler *)

\* strftime('%Y-%m-%d_%H-%M-%S'): the clock cut to the second
strftime(now) == now \div TicksPerSecond

\* json.dumps / json.loads of a dict of strings, numbers and lists
json_dumps(value) == [json |-> value]
json_loads(text) == text.json

\* int() of an amount of dollars kept in cents: whole dollars, towards zero
int(cents) == cents \div 100

\* table.put_item: the item replaces whatever the table held under its id
put_item(table, item) ==
    [id \in DOMAIN table \cup {item.id} |-> IF id = item.id THEN item ELSE table[id]]

Item(results, now) ==
    [id                      |-> strftime(now),
     timestamp               |-> results.timestamp,
     recommendations_count   |-> Len(results.recommendations),
     total_potential_savings |-> int(results.total_potential_savings),
     data                    |-> json_dumps(results),
     ai_report               |-> None,
     report_generated_at     |-> None]

\* store_results with its except clause not re-raising: a failed write is only logged
store_results_swallowing(table, results, now, put) ==
    IF put = "ok"
    THEN [raised |-> FALSE, table |-> put_item(table, Item(results, now))]
    ELSE [raised |-> FALSE, table |-> table]

\* store_results: the new table and whether the write raised
store_results(table, results, now, put) ==
    IF put = "ok"
    THEN [raised |-> FALSE, table |-> put_item(table, Item(results, now))]
    ELSE [raised |-> TRUE, table |-> table]

\* cost_analyzer.lambda_handler, one whole invocation
Stage1(put) ==
    /\ pc = "idle"
    /\ LET metrics == collect_aws_metrics(aws, clock)
           results == analyze_metrics(metrics, clock)
           stored  == store_results(store, results, clock, put)
       IN  /\ metrics_data' = metrics
           /\ analysis_results' = results
           /\ store' = stored.table
           /\ s1_response' =
                IF stored.raised
                THEN [statusCode |-> 500, body |-> [error |-> "put_item failed"]]
                ELSE [statusCode |-> 200,
                      body |-> [message            |-> "Cost analysis completed successfully",
                                resources_analyzed |-> 3,
                                recommendations    |-> Len(results.recommendations)]]
    /\ pc' = "stage1"
    /\ UNCHANGED <<clock, aws, backend, stage2_vars>>

\* the invocation has returned: its locals are gone
InvocationEnds ==
    /\ pc \in {"stage1", "stage2"}
    /\ pc' = "idle"
    /\ metrics_data' = None
    /\ analysis_results' = None
    /\ s1_response' = None
    /\ latest_analysis' = None
    /\ client_call' = None
    /\ ai_report' = None
    /\ effects' = << >>
    /\ s2_response' = None
    /\ UNCHANGED <<clock, aws, store, backend>>

\* the scheduler's next run is at least a second later
Tick(last) ==
    /\ pc = "idle"
    /\ strftime(clock) < last
    /\ clock' = clock + TicksPerSecond
    /\ UNCHANGED <<pc, aws, store, backend, stage1_vars, stage2_vars>>

----------------------------------------------------------------------------
(* Stage 2, the text-generation client (ai_client.py) *)

\* Python values a report can be: a str (its template and what it embeds) or None
Str(template, args) == [type |-> "str", template |-> template, args |-> args]
EmptyStr == Str("", << >>)

\* len() is defined on a str, not on None
has_len(value) == value.type = "str"

\* what a call returns, or the exception it raises
Returned(value) == [raised |-> FALSE, value |-> value]
Raised(exception) == [raised |-> TRUE, exception |-> exception]

SupportedProviders == {"groq", "openrouter", "ollama"}
Providers == SupportedProviders \cup {"bedrock"}

\* the text a backend may put in its text field
Contents == {Str("AI report", << >>), EmptyStr, None}

\* the JSON objects a 2xx response may carry
JsonObjects ==
    {[error |-> "model_decommissioned"], [choices |-> << >>]}
    \cup {[choices |-> <<[message |-> [content |-> c]]>>] : c \in Contents}
    \cup {[response |-> c] : c \in Contents}

\* a 2xx body that is no JSON: response.json() raises requests' JSONDecodeError,
\* a RequestException from requests 2.27 on and a plain ValueError before
Bodies ==
    {[is_json |-> FALSE, decode_error |-> e] : e \in {"RequestException", "ValueError"}}
    \cup {[is_json |-> TRUE, value |-> v] : v \in JsonObjects}

\* what requests.post does: raise, or hand back a response
Responses ==
    {[error |-> e, status_code |-> 0, body |-> None] : e \in {"ConnectionError", "Timeout"}}
    \cup {[error |-> "none", status_code |-> c, body |-> None] : c \in {429, 500}}
    \cup {[error |-> "none", status_code |-> 200, body |-> b] : b \in Bodies}

\* AIClient.__init__ / _get_api_key
AIClient(provider) ==
    IF provider \in SupportedProviders THEN Returned([provider |-> provider])
    ELSE Raised("ValueError")

_build_prompt(metrics_data_) ==
    [ec2_count       |-> Len(metrics_data_.metrics.ec2_instances),
     ebs_count       |-> Len(metrics_data_.metrics.ebs_volumes),
     total_savings   |-> metrics_data_.total_potential_savings,
     recommendations |-> metrics_data_.recommendations]

\* a fallback text that quotes the prompt it was given
_fallback_report_quoting(prompt) ==
    Str("AWS COST OPTIMIZATION REPORT (Fallback Mode)", <<prompt>>)

_fallback_report(prompt) ==
    Str("AWS COST OPTIMIZATION REPORT (Fallback Mode)", << >>)

\* requests.post(...) then response.raise_for_status(): the RequestException raised, if any
request_exception(response) ==
    IF response.error # "none" THEN response.error
    ELSE IF response.status_code >= 400 /\ response.status_code < 600 THEN "HTTPError"
    ELSE "none"

_call_groq(prompt, response) ==
    IF request_exception(response) # "none" THEN Returned(_fallback_report(prompt))
    ELSE IF ~response.body.is_json
         THEN IF response.body.decode_error = "RequestException"
              THEN Returned(_fallback_report(prompt))
              ELSE Raised("ValueError")
    ELSE LET result == response.body.value
         IN  IF "choices" \notin DOMAIN result THEN Raised("KeyError")
             ELSE IF Len(result.choices) = 0 THEN Raised("IndexError")
             ELSE Returned(result.choices[1].message.content)

_call_openrouter(prompt, response) ==
    IF request_exception(response) # "none" THEN Returned(_fallback_report(prompt))
    ELSE IF ~response.body.is_json
         THEN IF response.body.decode_error = "RequestException"
              THEN Returned(_fallback_report(prompt))
              ELSE Raised("ValueError")
    ELSE LET result == response.body.value
         IN  IF "choices" \notin DOMAIN result THEN Raised("KeyError")
             ELSE IF Len(result.choices) = 0 THEN Raised("IndexError")
             ELSE Returned(result.choices[1].message.content)

_call_ollama(prompt, response) ==
    IF request_exception(response) # "none" THEN Returned(_fallback_report(prompt))
    ELSE IF ~response.body.is_json
         THEN IF response.body.decode_error = "RequestException"
              THEN Returned(_fallback_report(prompt))
              ELSE Raised("ValueError")
    ELSE LET result == response.body.value
         IN  IF "response" \notin DOMAIN result THEN Raised("KeyError")
             ELSE Returned(result.response)

\* AIClient.generate_report, given what the backend answers
generate_report(provider, metrics_data_, response) ==
    LET prompt == _build_prompt(metrics_data_)
    IN  IF provider = "groq" THEN _call_groq(prompt, response)
        ELSE IF provider = "openrouter" THEN _call_openrouter(prompt, response)
        ELSE IF provider = "ollama" THEN _call_ollama(prompt, response)
        ELSE Raised("ValueError")

----------------------------------------------------------------------------
(* The analyzer on its own: every bounded metrics input, then one analysis *)

InstanceIds == <<"i-1", "i-2", "i-3">>
VolumeIds == <<"vol-1", "vol-2", "vol-3">>

CpuProfiles ==
    { [cpu_average |-> 0,    cpu_max |-> 0],
      [cpu_average |-> 500,  cpu_max |-> 2000],
      [cpu_average |-> 1499, cpu_max |-> 9000],
      [cpu_average |-> 1500, cpu_max |-> 1500],
      [cpu_average |-> 4000, cpu_max |-> 10000] }

VolumeProfiles ==
    { [size_gb |-> 0,   state |-> "available", is_attached |-> FALSE],
      [size_gb |-> 30,  state |-> "available", is_attached |-> FALSE],
      [size_gb |-> 100, state |-> "in-use",    is_attached |-> FALSE],
      [size_gb |-> 8,   state |-> "in-use",    is_attached |-> FALSE],
      [size_gb |-> 30,  state |-> "in-use",    is_attached |-> TRUE],
      [size_gb |-> 100, state |-> "available", is_attached |-> TRUE] }

InstanceSample(k, p) ==
    [instance_id   |-> InstanceIds[k],
     instance_type |-> "t3.medium",
     cpu_average   |-> p.cpu_average,
     cpu_max       |-> p.cpu_max]

VolumeSample(k, p) ==
    [volume_id   |-> VolumeIds[k],
     size_gb     |-> p.size_gb,
     state       |-> p.state,
     is_attached |-> p.is_attached]

ComputeSequences ==
    {[k \in DOMAIN ps |-> InstanceSample(k, ps[k])] : ps \in SeqsUpTo(CpuProfiles, MaxInstances)}

StorageSequences ==
    {[k \in DOMAIN ps |-> VolumeSample(k, ps[k])] : ps \in SeqsUpTo(VolumeProfiles, MaxVolumes)}

MetricsInputs ==
    [ec2_instances : ComputeSequences, ebs_volumes : StorageSequences, timestamp : {0}]

\* every API of the account answering, with CPU data for the instance
Healthy == [ec2 |-> "ok", cloudwatch |-> "datapoints", ebs |-> "ok"]

InitAnalyze ==
    /\ pc = "analyze"
    /\ clock = 0
    /\ aws = Healthy
    /\ store = << >>
    /\ backend = None
    /\ metrics_data \in MetricsInputs
    /\ analysis_results = None
    /\ s1_response = None
    /\ latest_analysis = None
    /\ client_call = None
    /\ ai_report = None
    /\ effects = << >>
    /\ s2_response = None

Analyze ==
    /\ pc = "analyze"
    /\ analysis_results = None
    /\ analysis_results' = analyze_metrics(metrics_data, clock)
    /\ UNCHANGED <<pc, clock, aws, store, backend, metrics_data, s1_response, stage2_vars>>

NextAnalyze == Analyze

SpecAnalyze == InitAnalyze /\ [][NextAnalyze]_vars

----------------------------------------------------------------------------
(* Properties of analyze_metrics, checked under SpecAnalyze *)

Analyzed == analysis_results # None

RecsOf(type, id) ==
    {i \in DOMAIN analysis_results.recommendations :
        /\ analysis_results.recommendations[i].type = type
        /\ analysis_results.recommendations[i].resource_id = id}

RecsOfType(type) ==
    {i \in DOMAIN analysis_results.recommendations :
        analysis_results.recommendations[i].type = type}

\* C4: each compute sample with cpu_average < 15 gets exactly one rightsize
\* recommendation (severity medium, savings 50, its own resource id), a sample
\* with cpu_average >= 15 (15 included) gets none, and the number of rightsize
\* recommendations is the number of samples below 15.
C4_RightsizeRule ==
    Analyzed =>
        LET instances == metrics_data.ec2_instances
            recs      == analysis_results.recommendations
        IN  /\ \A k \in DOMAIN instances :
                 LET mine == RecsOf("ec2_rightsize", instances[k].instance_id)
                 IN  IF instances[k].cpu_average < 1500
                     THEN /\ Cardinality(mine) = 1
                          /\ \A i \in mine : /\ recs[i].severity = "medium"
                                              /\ recs[i].estimated_savings = 5000
                     ELSE mine = {}
            /\ Cardinality(RecsOfType("ec2_rightsize"))
                 = Cardinality({k \in DOMAIN instances : instances[k].cpu_average < 1500})

C4_Witness ==
    /\ Analyzed
    /\ \E k \in DOMAIN metrics_data.ec2_instances :
            /\ metrics_data.ec2_instances[k].cpu_average = 1499
            /\ RecsOf("ec2_rightsize", metrics_data.ec2_instances[k].instance_id) # {}
    /\ \E k \in DOMAIN metrics_data.ec2_instances :
            /\ metrics_data.ec2_instances[k].cpu_average = 1500
            /\ RecsOf("ec2_rightsize", metrics_data.ec2_instances[k].instance_id) = {}

\* C5: each storage sample that is not attached gets exactly one cleanup
\* recommendation (severity low, savings 10 cents per GB), an attached one gets
\* none, whatever the state field says; 30 GB gives 3.00 and 0 GB gives 0.
C5_CleanupRule ==
    Analyzed =>
        LET volumes == metrics_data.ebs_volumes
            recs    == analysis_results.recommendations
        IN  /\ \A k \in DOMAIN volumes :
                 LET mine == RecsOf("ebs_cleanup", volumes[k].volume_id)
                 IN  IF volumes[k].is_attached
                     THEN mine = {}
                     ELSE /\ Cardinality(mine) = 1
                          /\ \A i \in mine :
                                /\ recs[i].severity = "low"
                                /\ recs[i].estimated_savings = volumes[k].size_gb * 10
                                /\ volumes[k].size_gb = 30 => recs[i].estimated_savings = 300
                                /\ volumes[k].size_gb = 0 => recs[i].estimated_savings = 0
            /\ Cardinality(RecsOfType("ebs_cleanup"))
                 = Cardinality({k \in DOMAIN volumes : ~volumes[k].is_attached})

C5_Witness ==
    /\ Analyzed
    /\ \E k \in DOMAIN metrics_data.ebs_volumes :
            /\ ~metrics_data.ebs_volumes[k].is_attached
            /\ metrics_data.ebs_volumes[k].state = "in-use"
            /\ RecsOf("ebs_cleanup", metrics_data.ebs_volumes[k].volume_id) # {}
    /\ \E k \in DOMAIN metrics_data.ebs_volumes :
            /\ metrics_data.ebs_volumes[k].is_attached
            /\ metrics_data.ebs_volumes[k].state = "available"
            /\ RecsOf("ebs_cleanup", metrics_data.ebs_volumes[k].volume_id) = {}

\* the savings of a recommendation list, added up from the front
RECURSIVE SavingsOf(_)
SavingsOf(recs) ==
    IF recs = << >> THEN 0 ELSE Head(recs).estimated_savings + SavingsOf(Tail(recs))

\* the spec's end-to-end scenario: CPU averages 5 and 40, one unattached 100 GB volume
EndToEndScenario ==
    /\ Len(metrics_data.ec2_instances) = 2
    /\ metrics_data.ec2_instances[1].cpu_average = 500
    /\ metrics_data.ec2_instances[2].cpu_average = 4000
    /\ Len(metrics_data.ebs_volumes) = 1
    /\ metrics_data.ebs_volumes[1].size_gb = 100
    /\ ~metrics_data.ebs_volumes[1].is_attached

\* C6: total_potential_savings is the sum of the estimated_savings of exactly
\* the snapshot's recommendations, never negative, 0 without recommendations;
\* the end-to-end scenario gives 2 recommendations and a total of 60.
C6_TotalIsSum ==
    Analyzed =>
        LET recs  == analysis_results.recommendations
            total == analysis_results.total_potential_savings
        IN  /\ total = SavingsOf(recs)
            /\ total >= 0
            /\ recs = << >> => total = 0
            /\ (metrics_data.ec2_instances = << >> /\ metrics_data.ebs_volumes = << >>)
                    => (recs = << >> /\ total = 0)
            /\ EndToEndScenario =>
                    /\ Len(recs) = 2
                    /\ recs[1].type = "ec2_rightsize" /\ recs[1].resource_id = "i-1"
                    /\ recs[2].type = "ebs_cleanup" /\ recs[2].estimated_savings = 1000
                    /\ total = 6000

C6_Witness ==
    /\ Analyzed
    /\ EndToEndScenario
    /\ analysis_results.total_potential_savings = 6000

----------------------------------------------------------------------------
(* Stage 2, the handler (ai_recommender/handler.py) *)

Min(a, b) == IF a <= b THEN a ELSE b

\* what table.scan(Limit=10) answers when it answers: one page of at most
\* ScanLimit items, whichever the table's hash order puts first
ScanPages(table) ==
    {[error |-> FALSE, page |-> P] :
        P \in {Q \in SUBSET DOMAIN table :
                 Cardinality(Q) = Min(ScanLimit, Cardinality(DOMAIN table))}}

\* the scan raising
ScanFails == [error |-> TRUE, page |-> {}]

\* sorted(items, key=timestamp, reverse=True)[0]
latest_of(table, page) ==
    CHOOSE id \in page : \A other \in page : table[other].timestamp <= table[id].timestamp

\* the fetch with no try around it: a failing scan propagates
get_latest_analysis_unguarded(table, scan) ==
    IF scan.error THEN Raised("ClientError")
    ELSE IF scan.page = {} THEN Returned(None)
    ELSE LET latest == latest_of(table, scan.page)
         IN  Returned([id                    |-> table[latest].id,
                       timestamp             |-> table[latest].timestamp,
                       data                  |-> json_loads(table[latest].data),
                       recommendations_count |-> table[latest].recommendations_count])

get_latest_analysis(table, scan) ==
    IF scan.error THEN Returned(None)
    ELSE IF scan.page = {} THEN Returned(None)
    ELSE LET latest == latest_of(table, scan.page)
         IN  Returned([id                    |-> table[latest].id,
                       timestamp             |-> table[latest].timestamp,
                       data                  |-> json_loads(table[latest].data),
                       recommendations_count |-> table[latest].recommendations_count])

generate_fallback_report(analysis_data) ==
    LET recommendations == analysis_data.data.recommendations
    IN  Str("AWS COST OPTIMIZATION REPORT",
            <<analysis_data.data.total_potential_savings, Len(recommendations),
              SubSeq(recommendations, 1, Min(5, Len(recommendations)))>>)

\* what generate_ai_report's try block does: build the client, ask it for the
\* report, take len() of what came back
try_generate(analysis_data, provider, response) ==
    LET client == AIClient(provider)
        result == generate_report(provider, analysis_data.data, response)
    IN  IF client.raised THEN [call |-> None, outcome |-> client]
        ELSE [call    |-> [provider |-> provider,
                           prompt   |-> _build_prompt(analysis_data.data),
                           result   |-> result],
              outcome |-> IF result.raised THEN result
                          ELSE IF ~has_len(result.value) THEN Raised("TypeError")
                          ELSE result]

\* generate_ai_report with no except clause: what the try block raises propagates
generate_ai_report_unguarded(analysis_data, provider, response) ==
    try_generate(analysis_data, provider, response)

\* generate_ai_report: the client call it made (None when no client was built)
\* and its outcome
generate_ai_report(analysis_data, provider, response) ==
    LET tried == try_generate(analysis_data, provider, response)
    IN  [call    |-> tried.call,
         outcome |-> IF tried.outcome.raised
                     THEN Returned(generate_fallback_report(analysis_data))
                     ELSE tried.outcome]

\* save_to_s3 with no try around put_object: the failure leaves the function
save_to_s3_unguarded(report, put_object) ==
    IF report.type # "str" THEN "raised"
    ELSE IF put_object = "ok" THEN "ok" ELSE "raised"

\* save_to_s3: report.encode('utf-8') then s3.put_object, inside one try;
\* "error" is a failure caught and logged
save_to_s3(report, put_object) ==
    IF report.type # "str" THEN "error"
    ELSE IF put_object = "ok" THEN "ok" ELSE "error"

\* send_notification: sns.publish(Message=report), inside a try
send_notification(report, publish) ==
    IF report.type # "str" THEN "error"
    ELSE IF publish = "ok" THEN "ok" ELSE "error"

\* table.update_item(Key={'id': ...}, SET ai_report, report_generated_at)
update_item(table, id, report, now) ==
    IF id \in DOMAIN table
    THEN [table EXCEPT ![id].ai_report = report, ![id].report_generated_at = now]
    ELSE put_item(table, [id |-> id, ai_report |-> report, report_generated_at |-> now])

\* update_analysis_with_report: the new table and how the write went
update_analysis_with_report(table, analysis_id, report, now, update) ==
    IF update = "ok"
    THEN [result |-> "ok", table |-> update_item(table, analysis_id, report, now)]
    ELSE [result |-> "error", table |-> table]

\* an exception left one of the calls made so far
aborted(calls) == \E i \in DOMAIN calls : calls[i].result = "raised"

\* ai_recommender.lambda_handler: the locals it ends with, the table it leaves
\* and what it returns to its caller
lambda_handler(table, e, now) ==
    LET fetched   == get_latest_analysis(table, e.scan)
        latest    == fetched.value
        generated == generate_ai_report(latest, e.provider, e.response)
        report    == generated.outcome.value
        archive   == IF e.s3_enabled
                     THEN <<[fn |-> "save_to_s3", result |-> save_to_s3(report, e.put_object)]>>
                     ELSE << >>
        notify    == IF ~aborted(archive) /\ e.sns_enabled
                     THEN <<[fn     |-> "send_notification",
                             result |-> send_notification(report, e.publish)]>>
                     ELSE << >>
        updated   == IF aborted(archive \o notify)
                     THEN [result |-> "skipped", table |-> table]
                     ELSE update_analysis_with_report(table, latest.id, report, now, e.update)
        update    == IF aborted(archive \o notify) THEN << >>
                     ELSE <<[fn |-> "update_analysis_with_report", result |-> updated.result]>>
        calls     == archive \o notify \o update
        error     == [statusCode |-> 500, body |-> [error |-> "exception"]]
        ended(latest_, call_, response_) ==
            [latest_analysis |-> latest_, client_call |-> call_, ai_report |-> None,
             effects |-> << >>, table |-> table, response |-> response_]
    IN  IF fetched.raised
        THEN ended(None, None, error)
        ELSE IF latest = None
        THEN ended(None, None, [statusCode |-> 404,
                                body |-> [error |-> "No analysis data found"]])
        ELSE IF generated.outcome.raised
        THEN ended(latest, generated.call, error)
        ELSE [latest_analysis |-> latest,
              client_call     |-> generated.call,
              ai_report       |-> report,
              effects         |-> calls,
              table           |-> updated.table,
              response        |-> IF aborted(calls) THEN error
                                  ELSE [statusCode |-> 200,
                                        body |-> [message |-> "AI report generated successfully"]]]

\* the responses that matter to a provider: none is asked for when the client
\* cannot be built
ResponsesFor(provider) ==
    IF provider \in SupportedProviders THEN Responses
    ELSE {[error |-> "ConnectionError", status_code |-> 0, body |-> None]}

\* what one stage 2 invocation meets: its configuration (AI_PROVIDER, whether
\* the S3 archive and the SNS notification are enabled and configured) and how
\* each service answers; a service that is not called answers "ok"
Environment(provider, scan, response, s3, sns, update) ==
    [provider    |-> provider,
     s3_enabled  |-> s3 # "disabled",
     sns_enabled |-> sns # "disabled",
     scan        |-> scan,
     response    |-> response,
     put_object  |-> IF s3 = "error" THEN "error" ELSE "ok",
     publish     |-> IF sns = "error" THEN "error" ELSE "ok",
     update      |-> update]

\* the fetch fails: no other service is called
FetchFails ==
    Environment("groq", ScanFails,
                [error |-> "ConnectionError", status_code |-> 0, body |-> None],
                "disabled", "disabled", "ok")

Stage2Environments(table) ==
    {FetchFails}
    \cup UNION {
        {Environment(provider, scan, response, s3, sns, update) :
            scan \in ScanPages(table),
            response \in ResponsesFor(provider),
            s3 \in {"disabled", "ok", "error"},
            sns \in {"disabled", "ok", "error"},
            update \in {"ok", "error"}} :
        provider \in Providers}

\* one whole invocation of stage 2
Stage2(e) ==
    /\ pc = "idle"
    /\ pc' = "stage2"
    /\ LET done == lambda_handler(store, e, clock)
       IN  /\ latest_analysis' = done.latest_analysis
           /\ client_call' = done.client_call
           /\ ai_report' = done.ai_report
           /\ effects' = done.effects
           /\ store' = done.table
           /\ s2_response' = done.response
    /\ UNCHANGED <<clock, aws, backend, stage1_vars>>

----------------------------------------------------------------------------
(* The pipeline: scheduled runs of stage 1 and of stage 2, one at a time *)

\* the account as the pipeline meets it: every API answering, or none
PipelineConditions ==
    {Healthy, [ec2 |-> "error", cloudwatch |-> "error", ebs |-> "error"]}

InitPipeline(conditions) ==
    /\ pc = "idle"
    /\ clock = 0
    /\ aws \in conditions
    /\ store = << >>
    /\ backend = None
    /\ metrics_data = None
    /\ analysis_results = None
    /\ s1_response = None
    /\ latest_analysis = None
    /\ client_call = None
    /\ ai_report = None
    /\ effects = << >>
    /\ s2_response = None

Init == InitPipeline(PipelineConditions)

Next ==
    \/ pc = "idle" /\ \E put \in {"ok", "error"} : Stage1(put)
    \/ pc = "idle" /\ \E e \in Stage2Environments(store) : Stage2(e)
    \/ InvocationEnds
    \/ Tick(MaxClock)

Spec == Init /\ [][Next]_vars

(* Stage 1 alone, under every condition of the account's APIs *)

InitCollect == InitPipeline(AwsConditions)

NextCollect ==
    \/ pc = "idle" /\ \E put \in {"ok", "error"} : Stage1(put)
    \/ InvocationEnds
    \/ Tick(MaxClock)

SpecCollect == InitCollect /\ [][NextCollect]_vars

(* Stage 2 over a long history: many scheduled runs of stage 1, then the fetch *)

\* the backend answering with a report
ReportResponse ==
    [error |-> "none", status_code |-> 200,
     body |-> [is_json |-> TRUE,
               value |-> [choices |-> <<[message |-> [content |-> Str("AI report", << >>)]]>>]]]

\* stage 2 with its archive and notification switched off and the record
\* update failing: the table keeps what stage 1 wrote
ReadOnlyEnvironments(table) ==
    {FetchFails}
    \cup {Environment("groq", scan, ReportResponse, "disabled", "disabled", "error") :
            scan \in ScanPages(table)}

NextHistory ==
    \/ pc = "idle" /\ \E put \in {"ok", "error"} : Stage1(put)
    \/ pc = "idle" /\ \E e \in ReadOnlyEnvironments(store) : Stage2(e)
    \/ InvocationEnds
    \/ Tick(MaxHistory)

SpecHistory == InitPipeline({Healthy}) /\ [][NextHistory]_vars

----------------------------------------------------------------------------
(* The client on its own: every bounded snapshot and backend answer, then one
   generate_report call per supported provider *)

SnapshotMetrics ==
    [ec2_instances : {[k \in DOMAIN ps |-> InstanceSample(k, ps[k])] :
                        ps \in SeqsUpTo(CpuProfiles, MaxSnapshotSamples)},
     ebs_volumes   : {[k \in DOMAIN ps |-> VolumeSample(k, ps[k])] :
                        ps \in SeqsUpTo(VolumeProfiles, MaxSnapshotSamples)},
     timestamp     : {0}]

\* what get_latest_analysis hands to stage 2 after stage 1 stored the analysis
Fetched(metrics) ==
    LET table == store_results(<< >>, analyze_metrics(metrics, 0), 0, "ok").table
    IN  get_latest_analysis(table, [error |-> FALSE, page |-> DOMAIN table]).value

InitClient ==
    /\ pc = "client"
    /\ clock = 0
    /\ aws = Healthy
    /\ store = << >>
    /\ backend \in Responses
    /\ metrics_data = None
    /\ analysis_results = None
    /\ s1_response = None
    /\ latest_analysis \in {Fetched(m) : m \in SnapshotMetrics}
    /\ client_call = None
    /\ ai_report = None
    /\ effects = << >>
    /\ s2_response = None

GenerateReport(provider) ==
    /\ pc = "client"
    /\ client_call = None
    /\ client_call' = [provider |-> provider,
                       prompt   |-> _build_prompt(latest_analysis.data),
                       result   |-> generate_report(provider, latest_analysis.data, backend)]
    /\ UNCHANGED <<pc, clock, aws, store, backend, stage1_vars,
                   latest_analysis, ai_report, effects, s2_response>>

NextClient == \E provider \in SupportedProviders : GenerateReport(provider)

SpecClient == InitClient /\ [][NextClient]_vars

----------------------------------------------------------------------------
(* Properties of stage 1, checked under SpecCollect *)

\* C7: when the write of store_results fails, stage 1 returns 500 with an error
\* message, not 200, and the table is left as it was
C7_WriteFailureIsFatal ==
    [][(pc = "idle" /\ Stage1("error")) =>
          /\ s1_response'.statusCode = 500
          /\ "error" \in DOMAIN s1_response'.body
          /\ store' = store]_vars

C7_Witness ==
    /\ pc = "stage1"
    /\ s1_response.statusCode = 500
    /\ analysis_results # None
    /\ store # << >>

\* the class was collected in full: one sample per resource of the account
AllInstancesCollected(samples) ==
    /\ Len(samples) = Len(Account.Instances)
    /\ \A k \in DOMAIN samples : samples[k].instance_id = Account.Instances[k].InstanceId

AllVolumesCollected(samples) ==
    /\ Len(samples) = Len(Account.Volumes)
    /\ \A k \in DOMAIN samples : samples[k].volume_id = Account.Volumes[k].VolumeId

\* C8: a failing inventory call empties its own resource class only, the other
\* class is collected in full; stage 1 still analyses what was collected and,
\* the write succeeding, stores the snapshot and returns 200
C8_CollectionFailsSoft ==
    [][(pc = "idle" /\ Stage1("ok")) =>
          /\ aws.ec2 = "error" => metrics_data'.ec2_instances = << >>
          /\ aws.ec2 = "ok" => AllInstancesCollected(metrics_data'.ec2_instances)
          /\ aws.ebs = "error" => metrics_data'.ebs_volumes = << >>
          /\ aws.ebs = "ok" => AllVolumesCollected(metrics_data'.ebs_volumes)
          /\ analysis_results'.metrics = metrics_data'
          /\ Cardinality({k \in DOMAIN analysis_results'.recommendations :
                             analysis_results'.recommendations[k].type = "ebs_cleanup"}) =
                Cardinality({k \in DOMAIN metrics_data'.ebs_volumes :
                               ~metrics_data'.ebs_volumes[k].is_attached})
          /\ strftime(clock) \in DOMAIN store'
          /\ json_loads(store'[strftime(clock)].data) = analysis_results'
          /\ s1_response'.statusCode = 200]_vars

C8_Witness ==
    /\ pc = "stage1"
    /\ aws.ec2 = "error"
    /\ aws.ebs = "ok"
    /\ metrics_data.ec2_instances = << >>
    /\ AllVolumesCollected(metrics_data.ebs_volumes)
    /\ store # << >>
    /\ s1_response.statusCode = 200

----------------------------------------------------------------------------
(* Properties of stage 2, checked under Spec *)

\* C1: whenever get_latest_analysis returned a snapshot, stage 2 returns 200
\* and has a report, whatever the provider and whatever the backend answered;
\* it returns 404 only when the fetch returned nothing, and never 500
C1_GenerationNeverFails ==
    pc = "stage2" =>
        /\ latest_analysis # None =>
              /\ s2_response.statusCode = 200
              /\ ai_report # None
              /\ has_len(ai_report)
        /\ s2_response.statusCode = 404 => latest_analysis = None
        /\ s2_response.statusCode # 500

\* the client raised, the handler answered 200 with the templated report
C1_Witness ==
    /\ pc = "stage2"
    /\ client_call # None
    /\ client_call.result.raised
    /\ ai_report = generate_fallback_report(latest_analysis)
    /\ s2_response.statusCode = 200

\* C10: with an empty table, and with a failing fetch, get_latest_analysis
\* returns None and stage 2 returns 404 having made no client call, no report,
\* no archive, no notification and no update of the table
C10_NothingToProcess ==
    [][(pc = "idle" /\ pc' = "stage2" /\ (store = << >> \/ Stage2(FetchFails))) =>
          /\ latest_analysis' = None
          /\ s2_response'.statusCode = 404
          /\ client_call' = None
          /\ ai_report' = None
          /\ effects' = << >>
          /\ store' = store]_vars

\* the fetch failed on a table that holds a snapshot
C10_Witness ==
    /\ pc = "stage2"
    /\ store # << >>
    /\ latest_analysis = None
    /\ effects = << >>
    /\ s2_response.statusCode = 404

----------------------------------------------------------------------------
(* Properties of the client, checked under SpecClient *)

\* the HTTP call failed: no connection, a timeout, or a status outside 2xx
HttpCallFailed ==
    \/ backend.error \in {"ConnectionError", "Timeout"}
    \/ backend.error = "none" /\ backend.status_code \notin 200..299

C3_NeverRaisesNeverEmpty ==
    (pc = "client" /\ client_call # None) =>
        /\ ~client_call.result.raised
        /\ client_call.result.value # None
        /\ client_call.result.value.type = "str"
        /\ client_call.result.value # EmptyStr

----------------------------------------------------------------------------
(* Properties of the fetch, checked under SpecHistory *)

\* C9: the snapshot a successful get_latest_analysis returns is the one with
\* the greatest timestamp among all the records of the table
C9_LatestIsNewest ==
    (pc = "stage2" /\ latest_analysis # None) =>
        \A id \in DOMAIN store : store[id].timestamp <= latest_analysis.timestamp

----------------------------------------------------------------------------
(* The persistence round trip on its own: every bounded metrics input is
   analysed, the snapshot is written by store_results into an empty table and
   read back by get_latest_analysis *)

StoreResults ==
    /\ pc = "analyze"
    /\ analysis_results # None
    /\ store = << >>
    /\ store' = store_results(store, analysis_results, clock, "ok").table
    /\ UNCHANGED <<pc, clock, aws, backend, stage1_vars, stage2_vars>>

GetLatestAnalysis ==
    /\ pc = "analyze"
    /\ store # << >>
    /\ latest_analysis = None
    /\ \E scan \in ScanPages(store) :
          latest_analysis' = get_latest_analysis(store, scan).value
    /\ UNCHANGED <<pc, clock, aws, store, backend, stage1_vars,
                   client_call, ai_report, effects, s2_response>>

NextRoundTrip ==
    \/ Analyze
    \/ StoreResults
    \/ GetLatestAnalysis

SpecRoundTrip == InitAnalyze /\ [][NextRoundTrip]_vars

\* an amount in cents rounded to whole dollars
RoundedToInt(cents) == round2(cents, 100)

\* C11: the record fetched after the write carries recommendations_count, equal
\* to the number of recommendations of the snapshot, and
\* total_potential_savings, equal to the snapshot's total rounded to an integer
C11_RoundTrip ==
    (pc = "analyze" /\ latest_analysis # None) =>
        /\ "recommendations_count" \in DOMAIN latest_analysis
        /\ latest_analysis.recommendations_count = Len(analysis_results.recommendations)
        /\ "total_potential_savings" \in DOMAIN latest_analysis
        /\ latest_analysis.total_potential_savings =
              RoundedToInt(analysis_results.total_potential_savings)

----------------------------------------------------------------------------
(* Collection cycles at any distance in time: the clock moves by single ticks,
   so two runs of stage 1 may fall in the same second; stage 2 runs in between
   and attaches its report to the record it fetched.  Each run touches the
   table through one put_item or update_item call, which DynamoDB applies
   atomically, so overlapping runs are the serial orders of those calls *)

\* time passes, less than a second of it
Elapse ==
    /\ pc = "idle"
    /\ strftime(clock + 1) <= MaxClock
    /\ clock' = clock + 1
    /\ UNCHANGED <<pc, aws, store, backend, stage1_vars, stage2_vars>>

\* stage 2 with its archive and notification switched off, the backend
\* answering with a report and the record update succeeding
AttachingEnvironments(table) ==
    {Environment("groq", scan, ReportResponse, "disabled", "disabled", "ok") :
        scan \in ScanPages(table)}

NextOverlap ==
    \/ pc = "idle" /\ \E put \in {"ok", "error"} : Stage1(put)
    \/ pc = "idle" /\ \E e \in AttachingEnvironments(store) : Stage2(e)
    \/ InvocationEnds
    \/ Elapse

SpecOverlap == InitPipeline({Healthy}) /\ [][NextOverlap]_vars

\* C12: a stage 1 run whose write succeeds adds one record under an id of its
\* own: every record the table held is still there, as it was, with the
\* ai_report it had
C12_WritesAreIndependent ==
    [][(pc = "idle" /\ Stage1("ok")) =>
          /\ \A id \in DOMAIN store : id \in DOMAIN store' /\ store'[id] = store[id]
          /\ Cardinality(DOMAIN store') = Cardinality(DOMAIN store) + 1]_vars

----------------------------------------------------------------------------
(* Stage 2 and its side effects: the archive and the notification enabled or
   not, each of the three writes succeeding or failing, for a report that came
   from the backend, an empty one, and the client's fallback text *)

EmptyReportResponse ==
    [error |-> "none", status_code |-> 200,
     body |-> [is_json |-> TRUE,
               value |-> [choices |-> <<[message |-> [content |-> EmptyStr]]>>]]]

BackendDown == [error |-> "ConnectionError", status_code |-> 0, body |-> None]

EffectEnvironments(table) ==
    {Environment("groq", scan, response, s3, sns, update) :
        scan \in ScanPages(table),
        response \in {ReportResponse, EmptyReportResponse, BackendDown},
        s3 \in {"disabled", "ok", "error"},
        sns \in {"disabled", "ok", "error"},
        update \in {"ok", "error"}}

NextEffects ==
    \/ pc = "idle" /\ \E put \in {"ok", "error"} : Stage1(put)
    \/ pc = "idle" /\ \E e \in EffectEnvironments(store) : Stage2(e)
    \/ InvocationEnds
    \/ Tick(MaxClock)

SpecEffects == InitPipeline({Healthy}) /\ [][NextEffects]_vars

\* the side effects lambda_handler is configured to attempt, in its order
Attempted(e) ==
    (IF e.s3_enabled THEN <<"save_to_s3">> ELSE << >>)
    \o (IF e.sns_enabled THEN <<"send_notification">> ELSE << >>)
    \o <<"update_analysis_with_report">>

\* C13: whichever of the archive, the notification and the record update
\* fail, stage 2 returns 200 and has attempted every configured side effect,
\* archive then notification then update
C13_SideEffectsBestEffort ==
    [][\A e \in EffectEnvironments(store) :
          (pc = "idle" /\ Stage2(e) /\ latest_analysis' # None) =>
              /\ s2_response'.statusCode = 200
              /\ [i \in DOMAIN effects' |-> effects'[i].fn] = Attempted(e)]_vars

\* all three failed, the handler answered 200
C13_Witness ==
    /\ pc = "stage2"
    /\ effects = <<[fn |-> "save_to_s3", result |-> "error"],
                   [fn |-> "send_notification", result |-> "error"],
                   [fn |-> "update_analysis_with_report", result |-> "error"]>>
    /\ ai_report = Str("AI report", << >>)
    /\ s2_response.statusCode = 200

----------------------------------------------------------------------------
(* Stage 2 configured with a provider the client does not support, checked
   under Spec *)

\* the environments of Stage2Environments whose AI_PROVIDER is unsupported
UnsupportedEnvironments(table) ==
    {Environment(provider, scan, BackendDown, s3, sns, update) :
        provider \in Providers \ SupportedProviders,
        scan \in ScanPages(table),
        s3 \in {"disabled", "ok", "error"},
        sns \in {"disabled", "ok", "error"},
        update \in {"ok", "error"}}

\* C14: with an unsupported AI_PROVIDER the client's construction raises, no
\* request is sent, and the invocation fails: it does not return 200 and no
\* report is archived, notified or written to the record
C14_UnsupportedProviderIsFatal ==
    [][\A e \in UnsupportedEnvironments(store) :
          (pc = "idle" /\ Stage2(e) /\ latest_analysis' # None) =>
              /\ client_call' = None
              /\ s2_response'.statusCode # 200
              /\ effects' = << >>
              /\ store' = store]_vars

----------------------------------------------------------------------------
(* The prompt the client dispatches, checked under SpecClient *)

\* C15: the dispatched prompt embeds the compute and storage resource counts,
\* the count of instances with cpu_average < 15, the count of unattached
\* volumes, the total savings, and every recommendation of the snapshot
C15_PromptContents ==
    (pc = "client" /\ client_call # None) =>
        LET prompt  == client_call.prompt
            data    == latest_analysis.data
            compute == data.metrics.ec2_instances
            storage == data.metrics.ebs_volumes
        IN  /\ prompt.ec2_count = Len(compute)
            /\ prompt.ebs_count = Len(storage)
            /\ prompt.total_savings = data.total_potential_savings
            /\ prompt.recommendations = data.recommendations
            /\ "low_cpu_count" \in DOMAIN prompt
            /\ prompt.low_cpu_count =
                  Cardinality({k \in DOMAIN compute :
                                 compute[k].cpu_average < LowCpuThreshold})
            /\ "unattached_count" \in DOMAIN prompt
            /\ prompt.unattached_count =
                  Cardinality({k \in DOMAIN storage : ~storage[k].is_attached})

----------------------------------------------------------------------------
(* Instances without CPU data, checked under SpecCollect *)

\* the metric query of every listed instance came back empty, or failed
NoCpuData == aws.ec2 = "ok" /\ aws.cloudwatch \in {"no_datapoints", "error"}

\* C16: an instance whose metric query returns no data points, or fails, is
\* kept in the compute sequence with cpu_average 0 and cpu_max 0, and the
\* analysis holds exactly one rightsize recommendation of 50 for it
C16_NoDataMeansIdle ==
    (pc = "stage1" /\ NoCpuData) =>
        /\ AllInstancesCollected(metrics_data.ec2_instances)
        /\ \A k \in DOMAIN metrics_data.ec2_instances :
              LET sample == metrics_data.ec2_instances[k]
                  mine   == {i \in DOMAIN analysis_results.recommendations :
                               /\ analysis_results.recommendations[i].type = "ec2_rightsize"
                               /\ analysis_results.recommendations[i].resource_id =
                                     sample.instance_id}
              IN  /\ sample.cpu_average = 0
                  /\ sample.cpu_max = 0
                  /\ Cardinality(mine) = 1
                  /\ \A i \in mine :
                        analysis_results.recommendations[i].estimated_savings = 5000

\* the metric query failed, the instance is reported as idle
C16_Witness ==
    /\ pc = "stage1"
    /\ aws.ec2 = "ok"
    /\ aws.cloudwatch = "error"
    /\ Len(metrics_data.ec2_instances) = 1
    /\ metrics_data.ec2_instances[1].cpu_average = 0
    /\ \E i \in DOMAIN analysis_results.recommendations :
          /\ analysis_results.recommendations[i].type = "ec2_rightsize"
          /\ analysis_results.recommendations[i].resource_id = "i-1"

====
